---- MODULE Spec2Model ----
(***************************************************************************)
(* A model of e-cue (src/e-cue.ts): the entry store (one JSON file per     *)
(* entry), the metadata aggregator calculateMetadata, the journaling loop  *)
(* journalLoop and the enrichment commands enrichEntry / enrichAllEntries. *)
(*                                                                         *)
(* Strings are sequences of one-character strings, so that trim, split,    *)
(* toLowerCase, replace, includes and the string comparisons of the source *)
(* are computed as the source computes them.                               *)
(*                                                                         *)
(* The calendar is the window October/November 2025: day number d >= 1 is  *)
(* 2025-11-d and d <= 0 is 2025-10-(31+d).  An instant is a number of      *)
(* hours, 24*d + h being h o'clock UTC on day d.                            *)
(***************************************************************************)
EXTENDS Integers, Sequences, FiniteSets, TLC

\* ------------------------------------------------------------------ bounds

\* entries are dated on the days 1..MaxDay of November 2025
MaxDay == 4

\* at most MaxEntries entries are handed to calculateMetadata
MaxEntries == 3

\* a session is started while fewer than MaxStored entries are stored
MaxStored == 2

\* at most MaxTurns inputs of a session are sent to the model
MaxTurns == 2

\* the clock of the host stops on day MaxClockDay
MaxClockDay == 2

\* ------------------------------------------------------------------ strings

\* the UTF-16 code unit of each character the model uses
Code(c) ==
    CASE c = "\t" -> 9
      [] c = " " -> 32
      [] c = "-" -> 45
      [] c = "." -> 46
      [] c = "0" -> 48
      [] c = "1" -> 49
      [] c = "2" -> 50
      [] c = "3" -> 51
      [] c = "4" -> 52
      [] c = "5" -> 53
      [] c = "6" -> 54
      [] c = "7" -> 55
      [] c = "8" -> 56
      [] c = "9" -> 57
      [] c = ":" -> 58
      [] c = "A" -> 65
      [] c = "E" -> 69
      [] c = "I" -> 73
      [] c = "Q" -> 81
      [] c = "S" -> 83
      [] c = "T" -> 84
      [] c = "U" -> 85
      [] c = "V" -> 86
      [] c = "X" -> 88
      [] c = "Z" -> 90
      [] c = "a" -> 97
      [] c = "b" -> 98
      [] c = "e" -> 101
      [] c = "h" -> 104
      [] c = "i" -> 105
      [] c = "j" -> 106
      [] c = "k" -> 107
      [] c = "n" -> 110
      [] c = "o" -> 111
      [] c = "q" -> 113
      [] c = "s" -> 115
      [] c = "t" -> 116
      [] c = "u" -> 117
      [] c = "v" -> 118
      [] c = "x" -> 120

\* a < b as JavaScript compares strings: by code unit, a proper prefix first
RECURSIVE StrLess(_, _)
StrLess(a, b) ==
    IF a = <<>> THEN b # <<>>
    ELSE IF b = <<>> THEN FALSE
    ELSE IF Head(a) = Head(b) THEN StrLess(Tail(a), Tail(b))
    ELSE Code(Head(a)) < Code(Head(b))

\* String.prototype.split('T')[0]: the part before the first "T"
RECURSIVE BeforeT(_)
BeforeT(s) ==
    IF s = <<>> THEN <<>>
    ELSE IF Head(s) = "T" THEN <<>>
    ELSE <<Head(s)>> \o BeforeT(Tail(s))

Digit(n) ==
    CASE n = 0 -> "0" [] n = 1 -> "1" [] n = 2 -> "2" [] n = 3 -> "3" [] n = 4 -> "4"
      [] n = 5 -> "5" [] n = 6 -> "6" [] n = 7 -> "7" [] n = 8 -> "8" [] n = 9 -> "9"

DigitValue(c) == Code(c) - 48

TwoDigits(n) == <<Digit(n \div 10), Digit(n % 10)>>

\* ------------------------------------------------------------------ Date

\* the UTC calendar date "YYYY-MM-DD" of day number d
DateString(d) ==
    IF d >= 1
    THEN <<"2", "0", "2", "5", "-", "1", "1", "-">> \o TwoDigits(d)
    ELSE <<"2", "0", "2", "5", "-", "1", "0", "-">> \o TwoDigits(31 + d)

\* Date.prototype.toISOString of the instant t (whole hours)
toISOString(t) ==
    DateString(t \div 24) \o <<"T">> \o TwoDigits(t % 24)
        \o <<":", "0", "0", ":", "0", "0", ".", "0", "0", "0", "Z">>

MS_PER_DAY == 1000 * 60 * 60 * 24

\* new Date("YYYY-MM-DD").getTime(): a date-only string is UTC midnight; the
\* milliseconds are counted from 2025-10-31T00:00Z (day 0) instead of 1970
DateGetTime(s) ==
    LET month == 10 * DigitValue(s[6]) + DigitValue(s[7])
        dom   == 10 * DigitValue(s[9]) + DigitValue(s[10])
    IN  (IF month = 11 THEN dom ELSE dom - 31) * MS_PER_DAY

\* The host's time zone: local time is UTC + before hours up to the instant
\* `at`, and UTC + after hours from then on.
UTC == [before |-> 0, after |-> 0, at |-> 0]

\* America/New_York: daylight time (UTC-4) ends on 2025-11-02 at 06:00Z
NewYork == [before |-> -4, after |-> -5, at |-> 2 * 24 + 6]

Zones == {UTC, NewYork}

\* the local wall clock (hours) of the instant t
LocalTime(zone, t) == t + (IF t < zone.at THEN zone.before ELSE zone.after)

\* the instant of a local wall clock w (ECMAScript UTC(t): a wall clock that
\* occurs twice is the earlier instant, one that is skipped takes the offset
\* before the transition)
FromLocalTime(zone, w) ==
    IF w - zone.before < zone.at THEN w - zone.before
    ELSE IF w - zone.after >= zone.at THEN w - zone.after
    ELSE w - zone.before

\* checkDate.setDate(checkDate.getDate() - 1): one local calendar day back, the
\* local time of day kept
SetDatePrevious(zone, t) == FromLocalTime(zone, LocalTime(zone, t) - 24)

\* ------------------------------------------------------------------ calculateMetadata

MIN_WORDS_FOR_STREAK == 750

\* entry.word_count || 0: a record without the field reads as undefined
WordCountOrZero(entry) ==
    IF "word_count" \in DOMAIN entry THEN entry.word_count ELSE 0

\* dateWordCounts.get(dateStr) || 0
GetOrZero(map, key) == IF key \in DOMAIN map THEN map[key] ELSE 0

\* the accumulators before the first entry is scanned; lastEntryDate is <<>>
\* for null and <<dateStr>> otherwise
ScanStart ==
    [totalWordCount |-> 0, dates |-> {}, qualifyingDates |-> {},
     dateWordCounts |-> [k \in {} |-> 0], lastEntryDate |-> <<>>]

\* ScanEntry with a date qualifying on the words of all its entries together
ScanEntryDayTotal(acc, entry) ==
    LET wordCount == WordCountOrZero(entry)
        dateStr   == BeforeT(entry.timestamp)
    IN  [totalWordCount |-> acc.totalWordCount + wordCount,
         dates |-> acc.dates \cup {dateStr},
         qualifyingDates |->
             IF GetOrZero(acc.dateWordCounts, dateStr) + wordCount >= MIN_WORDS_FOR_STREAK
             THEN acc.qualifyingDates \cup {dateStr}
             ELSE acc.qualifyingDates,
         dateWordCounts |->
             [k \in DOMAIN acc.dateWordCounts \cup {dateStr} |->
                 IF k = dateStr
                 THEN GetOrZero(acc.dateWordCounts, dateStr) + wordCount
                 ELSE acc.dateWordCounts[k]],
         lastEntryDate |->
             IF acc.lastEntryDate = <<>> \/ StrLess(acc.lastEntryDate[1], entry.timestamp)
             THEN <<dateStr>>
             ELSE acc.lastEntryDate]

\* ScanEntry with lastEntryDate taken from the entry scanned last
ScanEntryLastScanned(acc, entry) ==
    LET wordCount == WordCountOrZero(entry)
        dateStr   == BeforeT(entry.timestamp)
    IN  [totalWordCount |-> acc.totalWordCount + wordCount,
         dates |-> acc.dates \cup {dateStr},
         qualifyingDates |->
             IF wordCount >= MIN_WORDS_FOR_STREAK
             THEN acc.qualifyingDates \cup {dateStr}
             ELSE acc.qualifyingDates,
         dateWordCounts |->
             [k \in DOMAIN acc.dateWordCounts \cup {dateStr} |->
                 IF k = dateStr
                 THEN GetOrZero(acc.dateWordCounts, dateStr) + wordCount
                 ELSE acc.dateWordCounts[k]],
         lastEntryDate |-> <<dateStr>>]

\* ScanEntry with lastEntryDate replaced by the date of an earlier entry
ScanEntryEarliest(acc, entry) ==
    LET wordCount == WordCountOrZero(entry)
        dateStr   == BeforeT(entry.timestamp)
    IN  [totalWordCount |-> acc.totalWordCount + wordCount,
         dates |-> acc.dates \cup {dateStr},
         qualifyingDates |->
             IF wordCount >= MIN_WORDS_FOR_STREAK
             THEN acc.qualifyingDates \cup {dateStr}
             ELSE acc.qualifyingDates,
         dateWordCounts |->
             [k \in DOMAIN acc.dateWordCounts \cup {dateStr} |->
                 IF k = dateStr
                 THEN GetOrZero(acc.dateWordCounts, dateStr) + wordCount
                 ELSE acc.dateWordCounts[k]],
         lastEntryDate |->
             IF acc.lastEntryDate = <<>> \/ StrLess(entry.timestamp, acc.lastEntryDate[1])
             THEN <<dateStr>>
             ELSE acc.lastEntryDate]

\* one iteration of `for (const entry of entries)`
ScanEntry(acc, entry) ==
    LET wordCount == WordCountOrZero(entry)
        dateStr   == BeforeT(entry.timestamp)
    IN  [totalWordCount |-> acc.totalWordCount + wordCount,
         dates |-> acc.dates \cup {dateStr},
         qualifyingDates |->
             IF wordCount >= MIN_WORDS_FOR_STREAK
             THEN acc.qualifyingDates \cup {dateStr}
             ELSE acc.qualifyingDates,
         dateWordCounts |->
             [k \in DOMAIN acc.dateWordCounts \cup {dateStr} |->
                 IF k = dateStr
                 THEN GetOrZero(acc.dateWordCounts, dateStr) + wordCount
                 ELSE acc.dateWordCounts[k]],
         lastEntryDate |->
             IF acc.lastEntryDate = <<>> \/ StrLess(acc.lastEntryDate[1], entry.timestamp)
             THEN <<dateStr>>
             ELSE acc.lastEntryDate]

RECURSIVE ScanEntries(_, _)
ScanEntries(acc, entries) ==
    IF entries = <<>> THEN acc
    ELSE ScanEntries(ScanEntry(acc, Head(entries)), Tail(entries))

\* Array.from(set).sort(): ascending by code units
RECURSIVE SortStrings(_)
SortStrings(S) ==
    IF S = {} THEN <<>>
    ELSE LET least == CHOOSE x \in S : \A y \in S \ {x} : StrLess(x, y)
         IN  <<least>> \o SortStrings(S \ {least})

\* the while loop of the current streak: checkDate walks back from today
RECURSIVE StreakWalk(_, _, _)
StreakWalk(zone, checkDate, qualifyingDates) ==
    IF BeforeT(toISOString(checkDate)) \in qualifyingDates
    THEN 1 + StreakWalk(zone, SetDatePrevious(zone, checkDate), qualifyingDates)
    ELSE 0

CurrentStreak(zone, today, qualifyingDates) ==
    IF BeforeT(toISOString(today)) \in qualifyingDates
    THEN StreakWalk(zone, today, qualifyingDates)
    ELSE 0

Max(a, b) == IF a >= b THEN a ELSE b

\* AllTimeScan with a gap of several days continuing the run
RECURSIVE AllTimeScanAcrossGaps(_, _, _, _)
AllTimeScanAcrossGaps(sorted, i, maxStreak, currentConsecutive) ==
    IF i > Len(sorted) THEN maxStreak
    ELSE LET diffDays ==
                 (DateGetTime(sorted[i]) - DateGetTime(sorted[i - 1])) \div MS_PER_DAY
         IN  IF diffDays >= 1
             THEN AllTimeScanAcrossGaps(sorted, i + 1,
                                        Max(maxStreak, currentConsecutive + 1),
                                        currentConsecutive + 1)
             ELSE AllTimeScanAcrossGaps(sorted, i + 1, maxStreak, 1)

\* the for loop of the all-time streak, from index i on
RECURSIVE AllTimeScan(_, _, _, _)
AllTimeScan(sorted, i, maxStreak, currentConsecutive) ==
    IF i > Len(sorted) THEN maxStreak
    ELSE LET diffDays ==
                 (DateGetTime(sorted[i]) - DateGetTime(sorted[i - 1])) \div MS_PER_DAY
         IN  IF diffDays = 1
             THEN AllTimeScan(sorted, i + 1,
                              Max(maxStreak, currentConsecutive + 1),
                              currentConsecutive + 1)
             ELSE AllTimeScan(sorted, i + 1, maxStreak, 1)

AllTimeStreak(sortedQualifyingDates) ==
    IF Len(sortedQualifyingDates) > 0
    THEN AllTimeScan(sortedQualifyingDates, 2, 1, 1)
    ELSE 0

\* the average in hundredths, cut off and not rounded
TruncateHundredths(total, count) == (100 * total) \div count

\* Math.round(total / count * 100): the average in hundredths
RoundHundredths(total, count) == (200 * total + count) \div (2 * count)

EmptyMetadata ==
    [current_daily_streak |-> 0, all_time_daily_streak |-> 0,
     total_word_count |-> 0, average_word_count_per_day |-> 0,
     average_word_count_per_session |-> 0, total_entries |-> 0,
     last_entry_date |-> <<>>]

\* calculateMetadata(entries) run at the instant today on a host in zone; the
\* two averages are in hundredths
calculateMetadata(entries, zone, today) ==
    IF Len(entries) = 0 THEN EmptyMetadata
    ELSE LET acc == ScanEntries(ScanStart, entries)
             uniqueDaysCount == Cardinality(acc.dates)
         IN  [current_daily_streak |-> CurrentStreak(zone, today, acc.qualifyingDates),
              all_time_daily_streak |-> AllTimeStreak(SortStrings(acc.qualifyingDates)),
              total_word_count |-> acc.totalWordCount,
              average_word_count_per_day |->
                  IF uniqueDaysCount > 0
                  THEN RoundHundredths(acc.totalWordCount, uniqueDaysCount)
                  ELSE 0,
              average_word_count_per_session |->
                  RoundHundredths(acc.totalWordCount, Len(entries)),
              total_entries |-> Len(entries),
              last_entry_date |-> acc.lastEntryDate]

\* ------------------------------------------------------------------ text of the session

IsSpace(c) == c \in {" ", "\t"}

RECURSIVE TrimStart(_)
TrimStart(s) ==
    IF s # <<>> /\ IsSpace(Head(s)) THEN TrimStart(Tail(s)) ELSE s

RECURSIVE TrimEnd(_)
TrimEnd(s) ==
    IF s # <<>> /\ IsSpace(s[Len(s)]) THEN TrimEnd(SubSeq(s, 1, Len(s) - 1)) ELSE s

\* String.prototype.trim
trim(s) == TrimEnd(TrimStart(s))

LowerChar(c) ==
    CASE c = "A" -> "a" [] c = "E" -> "e" [] c = "I" -> "i" [] c = "Q" -> "q" [] c = "S" -> "s"
      [] c = "T" -> "t" [] c = "U" -> "u" [] c = "V" -> "v" [] c = "X" -> "x"
      [] c = "Z" -> "z" [] OTHER -> c

\* String.prototype.toLowerCase
toLowerCase(s) == [i \in 1..Len(s) |-> LowerChar(s[i])]

\* text.split(/\s+/): the pieces between the runs of white space, the empty
\* piece before a leading run and after a trailing run included
RECURSIVE SplitWhitespace(_, _)
SplitWhitespace(s, piece) ==
    IF s = <<>> THEN <<piece>>
    ELSE IF IsSpace(Head(s))
         THEN <<piece>> \o SplitWhitespace(TrimStart(s), <<>>)
         ELSE SplitWhitespace(Tail(s), Append(piece, Head(s)))

countWords(text) ==
    IF trim(text) # <<>> THEN Len(SplitWhitespace(text, <<>>)) ELSE 0

\* Array.prototype.join(' ')
RECURSIVE JoinSpace(_)
JoinSpace(parts) ==
    IF parts = <<>> THEN <<>>
    ELSE IF Len(parts) = 1 THEN parts[1]
    ELSE parts[1] \o <<" ">> \o JoinSpace(Tail(parts))

\* String.prototype.includes
includes(s, sub) ==
    \E i \in 0..(Len(s) - Len(sub)) : SubSeq(s, i + 1, i + Len(sub)) = sub

\* String.prototype.endsWith
endsWith(s, suffix) ==
    Len(s) >= Len(suffix) /\ SubSeq(s, Len(s) - Len(suffix) + 1, Len(s)) = suffix

\* ------------------------------------------------------------------ the entry store

\* replace(/[:.]/g, '-')
ReplaceColonsAndDots(s) == [i \in 1..Len(s) |-> IF s[i] \in {":", "."} THEN "-" ELSE s[i]]

\* replace(c, to) with a string pattern: the first occurrence only
RECURSIVE ReplaceFirst(_, _, _)
ReplaceFirst(s, c, to) ==
    IF s = <<>> THEN <<>>
    ELSE IF Head(s) = c THEN to \o Tail(s)
    ELSE <<Head(s)>> \o ReplaceFirst(Tail(s), c, to)

\* replace(/-$/, '')
DropFinalDash(s) ==
    IF s # <<>> /\ s[Len(s)] = "-" THEN SubSeq(s, 1, Len(s) - 1) ELSE s

DotJson == <<".", "j", "s", "o", "n">>

\* the file name without the id of the entry
EntryFilenameOfTimestamp(entry) ==
    LET timestampPart ==
            DropFinalDash(
                ReplaceFirst(
                    ReplaceFirst(ReplaceColonsAndDots(entry.timestamp), "T", <<"-">>),
                    "Z", <<>>))
    IN  timestampPart \o DotJson

\* the file name saveEntry and updateEntry derive from an entry
EntryFilename(entry) ==
    LET timestampPart ==
            DropFinalDash(
                ReplaceFirst(
                    ReplaceFirst(ReplaceColonsAndDots(entry.timestamp), "T", <<"-">>),
                    "Z", <<>>))
    IN  timestampPart \o <<"-">> \o entry.id \o DotJson

\* a file of the directory that holds the JSON of an entry
EntryFileOf(entry) == [parses |-> TRUE, entry |-> entry]

\* saveJson(filepath, entry): the directory after the write
WriteEntry(dir, entry) ==
    [f \in DOMAIN dir \cup {EntryFilename(entry)} |->
        IF f = EntryFilename(entry) THEN EntryFileOf(entry) ELSE dir[f]]

saveEntry(dir, entry) == WriteEntry(dir, entry)

\* updateEntry writing to a file named after the id alone
updateEntryUnderId(dir, entry) ==
    [f \in DOMAIN dir \cup {entry.id \o DotJson} |->
        IF f = entry.id \o DotJson THEN EntryFileOf(entry) ELSE dir[f]]

updateEntry(dir, entry) == WriteEntry(dir, entry)

\* the orders in which readdirSync may list the files of the directory
RECURSIVE Listings(_)
Listings(files) ==
    IF files = {} THEN {<<>>}
    ELSE UNION {{<<f>> \o rest : rest \in Listings(files \ {f})} : f \in files}

\* the loop of loadAllEntries: the .json files that parse, in listing order
RECURSIVE ReadEntries(_, _)
ReadEntries(dir, listing) ==
    IF listing = <<>> THEN <<>>
    ELSE LET file == Head(listing)
         IN  IF endsWith(file, DotJson) /\ dir[file].parses
             THEN <<dir[file].entry>> \o ReadEntries(dir, Tail(listing))
             ELSE ReadEntries(dir, Tail(listing))

\* b.timestamp.localeCompare(a.timestamp) > 0: a sorts after b.  The stamps
\* differ in digits only, where localeCompare agrees with the code units.
SortsAfter(a, b) == StrLess(a.timestamp, b.timestamp)

\* one entry put into an already sorted list, behind the entries it does not
\* precede (Array.prototype.sort is stable)
RECURSIVE InsertByTimestamp(_, _)
InsertByTimestamp(sorted, entry) ==
    IF sorted = <<>> THEN <<entry>>
    ELSE IF SortsAfter(Head(sorted), entry)
         THEN <<entry>> \o sorted
         ELSE <<Head(sorted)>> \o InsertByTimestamp(Tail(sorted), entry)

\* entries.sort(...): newest first
RECURSIVE SortByTimestamp(_)
SortByTimestamp(entries) ==
    IF entries = <<>> THEN <<>>
    ELSE InsertByTimestamp(SortByTimestamp(SubSeq(entries, 1, Len(entries) - 1)),
                           entries[Len(entries)])

loadAllEntries(dir, listing) == SortByTimestamp(ReadEntries(dir, listing))

\* loadEntryById: the first listed .json file whose name includes entryId;
\* <<>> for null
loadEntryById(dir, listing, entryId) ==
    LET jsonFiles == SelectSeq(listing, LAMBDA f : endsWith(f, DotJson) /\ includes(f, entryId))
    IN  IF jsonFiles = <<>> THEN <<>>
        ELSE IF dir[jsonFiles[1]].parses THEN <<dir[jsonFiles[1]].entry>>
        ELSE <<>>

\* ------------------------------------------------------------------ state

VARIABLES
    zone,              \* the time zone of the host
    now,               \* the clock of the host, an instant
    entriesDir,        \* the directory entries/: file name -> file
    metadataFile,      \* metadata.json: <<>> while absent, else <<metadata>>
    pc,                \* where the running process is
    atStart,           \* entriesDir and metadataFile as the running process found them
    messages,          \* journalLoop: the messages sent with each chat call
    cumulativeWords,   \* journalLoop
    sessionStartTime,  \* journalLoop
    sessionExchanges,  \* journalLoop
    userInput,         \* journalLoop: the input being handled
    argv,              \* the command line of the running process
    entryId,           \* journalLoop: the id of the saved entry; enrichEntry: its argument
    turnInputs,        \* the inputs of the session that were neither blank nor a command
    pending,           \* the requests to the model service that are awaiting their reply
    calls,             \* the requests the running process has sent, by endpoint
    entry,             \* enrichEntry: <<>> or <<the loaded entry>>
    entriesToEnrich,   \* enrichAllEntries: the entries still to be handed to enrichEntry
    entries,           \* the argument of a call of calculateMetadata
    result             \* <<>> or <<what that call returned>>

storeVars == <<entriesDir, metadataFile>>

sessionVars ==
    <<messages, cumulativeWords, sessionStartTime, sessionExchanges, userInput, turnInputs>>

enrichVars == <<entry, entriesToEnrich>>

callVars == <<pending, calls>>

metaVars == <<entries, result>>

vars ==
    <<zone, now, entriesDir, metadataFile, pc, atStart, messages, cumulativeWords,
      sessionStartTime, sessionExchanges, userInput, argv, entryId, turnInputs,
      pending, calls, entry, entriesToEnrich, entries, result>>

\* the positions at which no process is running
NoProcess == {"shell", "SavedExit", "DiscardedExit", "EnrichExit"}

NoCalls == [chat |-> 0, embeddings |-> 0]

\* the content of persona.txt, trimmed
Persona == <<"b", "e", " ", "k", "i", "n", "d">>

\* the lines the user may type
RawInputs ==
    { <<>>,
      <<" ", "\t">>,
      <<"s", "a", "v", "e">>,
      <<" ", "S", "A", "V", "E", " ">>,
      <<"E", "x", "i", "t">>,
      <<"q", "u", "i", "t", " ">>,
      <<"h", "i">>,
      <<" ", "a", " ", "\t", "b", " ">> }

\* the replies of the model to a chat call
RawReplies == { <<" ", "o", "k", " ">> }

\* the n-th identifier randomUUID hands out
Uuid(n) == <<"a", Digit(n)>>

\* the directory entries/ with no file in it
EmptyDir == [f \in {} |-> 0]

InitHost ==
    /\ entriesDir = EmptyDir
    /\ metadataFile = <<>>
    /\ pc = "shell"
    /\ atStart = [entriesDir |-> EmptyDir, metadataFile |-> <<>>]
    /\ messages = <<>>
    /\ cumulativeWords = 0
    /\ sessionStartTime = 0
    /\ sessionExchanges = <<>>
    /\ userInput = <<>>
    /\ argv = [command |-> "", entryId |-> <<>>]
    /\ entryId = <<>>
    /\ turnInputs = 0
    /\ pending = {}
    /\ calls = NoCalls
    /\ entry = <<>>
    /\ entriesToEnrich = <<>>

\* No session of MaxTurns short lines reaches MIN_WORDS_FOR_STREAK, so the zone,
\* which only the walk of the current streak reads, is the same for all hosts.
Init ==
    /\ InitHost
    /\ zone = UTC
    /\ now = 24
    /\ entries = <<>>
    /\ result = <<>>

\* a day passes while no process runs; nothing of the last process is left
Tick ==
    /\ pc \in NoProcess
    /\ now + 24 <= 24 * MaxClockDay
    /\ now' = now + 24
    /\ pc' = "shell"
    /\ atStart' = [entriesDir |-> entriesDir, metadataFile |-> metadataFile]
    /\ argv' = [command |-> "", entryId |-> <<>>]
    /\ messages' = <<>>
    /\ cumulativeWords' = 0
    /\ sessionStartTime' = 0
    /\ sessionExchanges' = <<>>
    /\ userInput' = <<>>
    /\ turnInputs' = 0
    /\ entryId' = <<>>
    /\ pending' = {}
    /\ calls' = NoCalls
    /\ UNCHANGED <<zone, storeVars, enrichVars, metaVars>>

\* ------------------------------------------------------------------ journalLoop

\* journalLoop up to its first prompt
StartSession ==
    /\ pc \in NoProcess
    /\ Cardinality(DOMAIN entriesDir) < MaxStored
    /\ pc' = "prompt"
    /\ atStart' = [entriesDir |-> entriesDir, metadataFile |-> metadataFile]
    /\ messages' = <<[role |-> "system", content |-> Persona]>>
    /\ cumulativeWords' = 0
    /\ sessionStartTime' = now
    /\ sessionExchanges' = <<>>
    /\ userInput' = <<>>
    /\ argv' = [command |-> "journal", entryId |-> <<>>]
    /\ entryId' = <<>>
    /\ turnInputs' = 0
    /\ pending' = {}
    /\ calls' = NoCalls
    /\ UNCHANGED <<zone, now, storeVars, enrichVars, metaVars>>

IsExitOrQuit(input) ==
    toLowerCase(input) = <<"e", "x", "i", "t">> \/ toLowerCase(input) = <<"q", "u", "i", "t">>

\* the save command recognised in lower case only
IsSaveExact(input) == input = <<"s", "a", "v", "e">>

IsSave(input) == toLowerCase(input) = <<"s", "a", "v", "e">>

\* if (!userInput) continue
BlankLine(raw) ==
    /\ pc = "prompt"
    /\ trim(raw) = <<>>
    /\ userInput' = trim(raw)
    /\ UNCHANGED <<zone, now, storeVars, pc, argv, atStart, messages, cumulativeWords,
                   sessionStartTime, sessionExchanges, entryId, turnInputs, callVars,
                   enrichVars, metaVars>>

\* "exit" or "quit" that writes the session as "save" does
ExitOrQuitSaves(raw) ==
    /\ pc = "prompt"
    /\ trim(raw) # <<>>
    /\ IsExitOrQuit(trim(raw))
    /\ userInput' = trim(raw)
    /\ pc' = "DiscardedExit"
    /\ entriesDir' =
           IF Len(sessionExchanges) > 0
           THEN saveEntry(entriesDir,
                          [id |-> Uuid(Cardinality(DOMAIN entriesDir) + 1),
                           timestamp |-> toISOString(sessionStartTime),
                           content |-> JoinSpace([i \in 1..Len(sessionExchanges) |->
                                                     sessionExchanges[i].user]),
                           word_count |-> cumulativeWords,
                           exchanges |-> sessionExchanges,
                           analysis |-> <<>>,
                           embedding |-> <<>>])
           ELSE entriesDir
    /\ UNCHANGED <<zone, now, metadataFile, argv, atStart, messages, cumulativeWords,
                   sessionStartTime, sessionExchanges, entryId, turnInputs, callVars,
                   enrichVars, metaVars>>

\* "exit" or "quit": break
ExitOrQuit(raw) ==
    /\ pc = "prompt"
    /\ trim(raw) # <<>>
    /\ IsExitOrQuit(trim(raw))
    /\ userInput' = trim(raw)
    /\ pc' = "DiscardedExit"
    /\ UNCHANGED <<zone, now, storeVars, argv, atStart, messages, cumulativeWords,
                   sessionStartTime, sessionExchanges, entryId, turnInputs, callVars,
                   enrichVars, metaVars>>

\* the entry "save" builds from the session
SessionEntry(id) ==
    [id |-> id,
     timestamp |-> toISOString(sessionStartTime),
     content |-> JoinSpace([i \in 1..Len(sessionExchanges) |-> sessionExchanges[i].user]),
     word_count |-> cumulativeWords,
     exchanges |-> sessionExchanges,
     analysis |-> <<>>,
     embedding |-> <<>>]

\* "save" that computes the metadata from the entries stored before the write
SaveSessionStaleMetadata(raw) ==
    /\ pc = "prompt"
    /\ trim(raw) # <<>>
    /\ ~IsExitOrQuit(trim(raw))
    /\ IsSave(trim(raw))
    /\ Len(sessionExchanges) > 0
    /\ userInput' = trim(raw)
    /\ entryId' = Uuid(Cardinality(DOMAIN entriesDir) + 1)
    /\ entriesDir' = saveEntry(entriesDir, SessionEntry(entryId'))
    /\ \E listing \in Listings(DOMAIN entriesDir) :
           metadataFile' = <<calculateMetadata(loadAllEntries(entriesDir, listing), zone, now)>>
    /\ pc' = "SavedExit"
    /\ UNCHANGED <<zone, now, argv, atStart, messages, cumulativeWords, sessionStartTime,
                   sessionExchanges, turnInputs, callVars, enrichVars, metaVars>>

\* "save" with at least one exchange: saveEntry, then the metadata of all
\* entries is computed and written
SaveSession(raw) ==
    /\ pc = "prompt"
    /\ trim(raw) # <<>>
    /\ ~IsExitOrQuit(trim(raw))
    /\ IsSave(trim(raw))
    /\ Len(sessionExchanges) > 0
    /\ userInput' = trim(raw)
    /\ entryId' = Uuid(Cardinality(DOMAIN entriesDir) + 1)
    /\ entriesDir' = saveEntry(entriesDir, SessionEntry(entryId'))
    /\ \E listing \in Listings(DOMAIN entriesDir') :
           metadataFile' = <<calculateMetadata(loadAllEntries(entriesDir', listing), zone, now)>>
    /\ pc' = "SavedExit"
    /\ UNCHANGED <<zone, now, argv, atStart, messages, cumulativeWords, sessionStartTime,
                   sessionExchanges, turnInputs, callVars, enrichVars, metaVars>>

\* "save" with no exchange: nothing is written
SaveNothing(raw) ==
    /\ pc = "prompt"
    /\ trim(raw) # <<>>
    /\ ~IsExitOrQuit(trim(raw))
    /\ IsSave(trim(raw))
    /\ Len(sessionExchanges) = 0
    /\ userInput' = trim(raw)
    /\ pc' = "SavedExit"
    /\ UNCHANGED <<zone, now, storeVars, argv, atStart, messages, cumulativeWords,
                   sessionStartTime, sessionExchanges, entryId, turnInputs, callVars,
                   enrichVars, metaVars>>

ChatRequest(msgs) == [api |-> "chat", messages |-> msgs]

\* any other line: the words are counted, the line joins the messages and the
\* chat call is sent
UserTurn(raw) ==
    /\ pc = "prompt"
    /\ trim(raw) # <<>>
    /\ ~IsExitOrQuit(trim(raw))
    /\ ~IsSave(trim(raw))
    /\ turnInputs < MaxTurns
    /\ userInput' = trim(raw)
    /\ turnInputs' = turnInputs + 1
    /\ cumulativeWords' = cumulativeWords + countWords(userInput')
    /\ messages' = Append(messages, [role |-> "user", content |-> userInput'])
    /\ pending' = pending \cup {ChatRequest(messages')}
    /\ calls' = [calls EXCEPT !.chat = @ + 1]
    /\ pc' = "chat"
    /\ UNCHANGED <<zone, now, storeVars, argv, atStart, sessionStartTime, sessionExchanges,
                   entryId, enrichVars, metaVars>>

\* the chat call returns: the reply joins the messages and the exchange is recorded
ChatReplies(reply) ==
    /\ pc = "chat"
    /\ LET aiMessage == trim(reply)
       IN  /\ messages' = Append(messages, [role |-> "e-cue", content |-> aiMessage])
           /\ sessionExchanges' =
                  Append(sessionExchanges, [user |-> userInput, assistant |-> aiMessage])
    /\ pending' = pending \ {ChatRequest(messages)}
    /\ pc' = "prompt"
    /\ UNCHANGED <<zone, now, storeVars, argv, atStart, cumulativeWords, sessionStartTime,
                   userInput, entryId, turnInputs, calls, enrichVars, metaVars>>

\* the chat call throws and the turn is recorded with an empty reply
ChatFailsRecordsTurn ==
    /\ pc = "chat"
    /\ pending' = pending \ {ChatRequest(messages)}
    /\ sessionExchanges' = Append(sessionExchanges, [user |-> userInput, assistant |-> <<>>])
    /\ pc' = "prompt"
    /\ UNCHANGED <<zone, now, storeVars, argv, atStart, messages, cumulativeWords,
                   sessionStartTime, userInput, turnInputs, entryId, calls, enrichVars,
                   metaVars>>

\* the chat call is given up while its request stays outstanding
ChatFailsStaysPending ==
    /\ pc = "chat"
    /\ pc' = "prompt"
    /\ UNCHANGED <<zone, now, storeVars, argv, atStart, sessionVars, entryId, callVars,
                   enrichVars, metaVars>>

\* the chat call throws: the error is printed and the loop continues
ChatFails ==
    /\ pc = "chat"
    /\ pending' = pending \ {ChatRequest(messages)}
    /\ pc' = "prompt"
    /\ UNCHANGED <<zone, now, storeVars, argv, atStart, sessionVars, entryId, calls,
                   enrichVars, metaVars>>

\* ------------------------------------------------------------------ enrichment

\* What generateAnalysis returns: the analysis parsed from the reply or, when
\* the call or the parse fails, the default one.  Either is an object with the
\* same six fields, which no code reads again, so one value stands for both.
DefaultAnalysis ==
    [sentiment |-> "neutral", emotions |-> <<>>, tone |-> "neutral", topics |-> <<>>,
     summary |-> "", keywords |-> <<>>]

AnalysisResults == {DefaultAnalysis}

\* what generateEmbedding returns: the vector of the service, or [] when the call fails
EmbeddingResults == {<<>>, <<1, 2>>}

\* the prompt generateAnalysis builds around the content
AnalysisPrompt(content) == <<"A", "n", "a", "l", "y", "z", "e", ":", " ">> \o content

AnalysisRequest(e) ==
    [api |-> "chat", messages |-> <<[role |-> "user", content |-> AnalysisPrompt(e.content)]>>]

EmbeddingRequest(e) == [api |-> "embeddings", prompt |-> e.content]

\* JavaScript truthiness of analysis and embedding (<<>> is null): an object and
\* an array, the empty array too, are truthy
Truthy(field) == field # <<>>

\* if (entry.analysis && entry.embedding) return
AlreadyEnriched(e) == Truthy(e.analysis) /\ Truthy(e.embedding)

\* if (!entry.analysis)
NeedsAnalysis(e) == ~Truthy(e.analysis)

\* if (!entry.embedding || entry.embedding.length === 0)
NeedsEmbedding(e) == ~Truthy(e.embedding) \/ Len(e.embedding[1]) = 0

\* RunEnrich with no early return and the analysis generated anew for every
\* entry that is found
RECURSIVE RunEnrichAnew(_, _, _)
RunEnrichAnew(dir, listing, ids) ==
    IF ids = <<>>
    THEN [pc |-> "EnrichExit", entry |-> <<>>, entryId |-> <<>>, left |-> 0, dir |-> dir]
    ELSE LET loaded == loadEntryById(dir, listing, Head(ids))
         IN  IF loaded = <<>> THEN RunEnrichAnew(dir, listing, Tail(ids))
             ELSE [pc |-> "analysis", entry |-> loaded, entryId |-> Head(ids),
                   left |-> Len(ids) - 1, dir |-> dir]

\* The loop of enrichAllEntries over the ids still to do (one id for the enrich
\* command), run up to the first call that is awaited: enrichEntry returns at
\* once for an id that is not found and for an entry that is already enriched.
RECURSIVE RunEnrich(_, _, _)
RunEnrich(dir, listing, ids) ==
    IF ids = <<>>
    THEN [pc |-> "EnrichExit", entry |-> <<>>, entryId |-> <<>>, left |-> 0, dir |-> dir]
    ELSE LET loaded == loadEntryById(dir, listing, Head(ids))
         IN  IF loaded = <<>> THEN RunEnrich(dir, listing, Tail(ids))
             ELSE IF AlreadyEnriched(loaded[1]) THEN RunEnrich(dir, listing, Tail(ids))
             ELSE IF NeedsAnalysis(loaded[1])
             THEN [pc |-> "analysis", entry |-> loaded, entryId |-> Head(ids),
                   left |-> Len(ids) - 1, dir |-> dir]
             ELSE IF NeedsEmbedding(loaded[1])
             THEN [pc |-> "embedding", entry |-> loaded, entryId |-> Head(ids),
                   left |-> Len(ids) - 1, dir |-> dir]
             ELSE RunEnrich(updateEntry(dir, loaded[1]), listing, Tail(ids))

IdsOf(queue) == [i \in 1..Len(queue) |-> queue[i].id]

LastOf(queue, n) == SubSeq(queue, Len(queue) - n + 1, Len(queue))

\* the process takes the position `run` describes; sent counts its calls so far
TakeRun(run, queue, sent) ==
    /\ pc' = run.pc
    /\ entry' = run.entry
    /\ entryId' = run.entryId
    /\ entriesDir' = run.dir
    /\ entriesToEnrich' = IF queue = <<>> THEN <<>> ELSE LastOf(queue, run.left)
    /\ pending' =
           IF run.pc = "analysis" THEN {AnalysisRequest(run.entry[1])}
           ELSE IF run.pc = "embedding" THEN {EmbeddingRequest(run.entry[1])}
           ELSE {}
    /\ calls' =
           IF run.pc = "analysis" THEN [sent EXCEPT !.chat = @ + 1]
           ELSE IF run.pc = "embedding" THEN [sent EXCEPT !.embeddings = @ + 1]
           ELSE sent

\* a process that is not journalLoop has none of its variables
NoSession ==
    /\ messages' = <<>>
    /\ cumulativeWords' = 0
    /\ sessionStartTime' = 0
    /\ sessionExchanges' = <<>>
    /\ userInput' = <<>>
    /\ turnInputs' = 0

\* the ids the enrich command may be given
EnrichArgs == {Uuid(1), Uuid(9), <<"j", "s", "o", "n">>}

\* `enrich <entry-id>`: enrichEntry(entryId) up to its first awaited call
EnrichCommand(id) ==
    /\ pc \in NoProcess
    /\ argv' = [command |-> "enrich", entryId |-> id]
    /\ atStart' = [entriesDir |-> entriesDir, metadataFile |-> metadataFile]
    /\ \E listing \in Listings(DOMAIN entriesDir) :
           TakeRun(RunEnrich(entriesDir, listing, <<id>>), <<>>, NoCalls)
    /\ NoSession
    /\ UNCHANGED <<zone, now, metadataFile, metaVars>>

\* e => !e.analysis || !e.embedding || e.embedding.length === 0
IsPending(e) == ~Truthy(e.analysis) \/ ~Truthy(e.embedding) \/ Len(e.embedding[1]) = 0

\* `enrich-all`: enrichAllEntries up to the first awaited call
EnrichAllCommand ==
    /\ pc \in NoProcess
    /\ argv' = [command |-> "enrich-all", entryId |-> <<>>]
    /\ atStart' = [entriesDir |-> entriesDir, metadataFile |-> metadataFile]
    /\ \E listing \in Listings(DOMAIN entriesDir) :
           LET queue == SelectSeq(loadAllEntries(entriesDir, listing), IsPending)
           IN  TakeRun(RunEnrich(entriesDir, listing, IdsOf(queue)), queue, NoCalls)
    /\ NoSession
    /\ UNCHANGED <<zone, now, metadataFile, metaVars>>

\* the loop of enrichAllEntries left after the entry in hand
EnrichNextStops(dir) == TakeRun(RunEnrich(dir, <<>>, <<>>), <<>>, calls)

\* the entries after the one in hand are enriched, up to the next awaited call
EnrichNext(dir) ==
    \E listing \in Listings(DOMAIN dir) :
        TakeRun(RunEnrich(dir, listing, IdsOf(entriesToEnrich)), entriesToEnrich, calls)

\* generateAnalysis returns (a failed call returns the default analysis); the
\* embedding is requested if it is missing, else the entry is written
AnalysisReturns(analysis) ==
    /\ pc = "analysis"
    /\ LET enriched == [entry[1] EXCEPT !.analysis = <<analysis>>]
       IN  IF NeedsEmbedding(enriched)
           THEN /\ pc' = "embedding"
                /\ entry' = <<enriched>>
                /\ pending' = {EmbeddingRequest(enriched)}
                /\ calls' = [calls EXCEPT !.embeddings = @ + 1]
                /\ UNCHANGED <<entriesDir, entryId, entriesToEnrich>>
           ELSE EnrichNext(updateEntry(entriesDir, enriched))
    /\ UNCHANGED <<zone, now, metadataFile, atStart, argv, sessionVars, metaVars>>

\* generateEmbedding returns (a failed call returns []); the entry is written
EmbeddingReturns(embedding) ==
    /\ pc = "embedding"
    /\ EnrichNext(updateEntry(entriesDir, [entry[1] EXCEPT !.embedding = <<embedding>>]))
    /\ UNCHANGED <<zone, now, metadataFile, atStart, argv, sessionVars, metaVars>>

\* ------------------------------------------------------------------ specification

Next ==
    \/ Tick
    \/ StartSession
    \/ \E raw \in RawInputs :
           \/ BlankLine(raw)
           \/ ExitOrQuit(raw)
           \/ SaveSession(raw)
           \/ SaveNothing(raw)
           \/ UserTurn(raw)
    \/ \E reply \in RawReplies : ChatReplies(reply)
    \/ ChatFails
    \/ \E id \in EnrichArgs : EnrichCommand(id)
    \/ EnrichAllCommand
    \/ \E analysis \in AnalysisResults : AnalysisReturns(analysis)
    \/ \E embedding \in EmbeddingResults : EmbeddingReturns(embedding)

Spec == Init /\ [][Next]_vars

\* ------------------------------------------------------------------ calculateMetadata alone

\* the word counts of the entries handed to calculateMetadata
WordCounts == {0, MIN_WORDS_FOR_STREAK - 1, MIN_WORDS_FOR_STREAK}

\* the entries calculateMetadata may be handed: written on one of the days, at
\* nine o'clock with one of the word counts or at twenty-one o'clock with no
\* word count at all
MetaEntries ==
    {[timestamp |-> toISOString(24 * d + 9), word_count |-> w] : d \in 1..MaxDay, w \in WordCounts}
        \cup {[timestamp |-> toISOString(24 * d + 21)] : d \in 1..MaxDay}

\* the hosts: any day at midnight UTC in Zones
InitMeta ==
    /\ InitHost
    /\ zone \in Zones
    /\ now \in {24 * d : d \in 1..MaxDay}
    /\ entries = <<>>
    /\ result = <<>>

\* one more entry is in the list
AddEntry(e) ==
    /\ Len(entries) < MaxEntries
    /\ entries' = Append(entries, e)
    /\ result' = <<>>
    /\ UNCHANGED <<zone, now, storeVars, pc, argv, atStart, sessionVars, entryId,
                   callVars, enrichVars>>

\* calculateMetadata(entries) is called
CallCalculateMetadata ==
    /\ result' = <<calculateMetadata(entries, zone, now)>>
    /\ UNCHANGED <<zone, now, storeVars, pc, argv, atStart, sessionVars, entryId,
                   callVars, enrichVars, entries>>

NextMeta ==
    \/ \E e \in MetaEntries : AddEntry(e)
    \/ CallCalculateMetadata

SpecMeta == InitMeta /\ [][NextMeta]_vars

\* ------------------------------------------------------------------ the claims on calculateMetadata

\* the UTC calendar day of the clock
Today == now \div 24

\* the entries of the list, by position
EntryIndexes == 1..Len(entries)

HasWordCount(e) == "word_count" \in DOMAIN e

\* the entry is dated on day d
IsOnDay(e, d) == SubSeq(e.timestamp, 1, 10) = DateString(d)

\* day d holds one entry of at least 750 words
QualifyingDay(d) ==
    \E i \in EntryIndexes :
        /\ IsOnDay(entries[i], d)
        /\ HasWordCount(entries[i])
        /\ entries[i].word_count >= 750

\* the days d, d+1, ..., d+n-1 all qualify
RunFrom(d, n) == \A k \in 0..(n - 1) : QualifyingDay(d + k)

\* the length of the run of qualifying days that ends today
StreakEndingToday ==
    CHOOSE n \in 0..(MaxDay + 1) : RunFrom(Today - n + 1, n) /\ ~QualifyingDay(Today - n)

\* the length of the longest run of qualifying days
LongestRun ==
    CHOOSE n \in 0..MaxDay :
        /\ \E d \in 1..MaxDay : RunFrom(d, n)
        /\ \A m \in (n + 1)..MaxDay : \A d \in 1..MaxDay : ~RunFrom(d, m)

\* C4: the current streak is 0 when today does not qualify, and else the
\* largest n such that today, today-1, ..., today-(n-1) all qualify
C4_CurrentStreakEndsToday ==
    result # <<>> =>
        result[1].current_daily_streak = (IF QualifyingDay(Today) THEN StreakEndingToday ELSE 0)

\* C5: the all-time streak is the length of the longest run of consecutive
\* qualifying days: 0 when no day qualifies, at least 1 when one does, and a
\* gap of more than a day starts a new run
C5_AllTimeStreakIsLongestRun ==
    result # <<>> =>
        /\ result[1].all_time_daily_streak = LongestRun
        /\ (result[1].all_time_daily_streak = 0) = (\A d \in 1..MaxDay : ~QualifyingDay(d))

\* C5 witness: a run of two days, a gap, and a later qualifying day
C5_Witness ==
    /\ result # <<>>
    /\ \E d \in 1..MaxDay :
           /\ RunFrom(d, 2)
           /\ ~QualifyingDay(d + 2)
           /\ QualifyingDay(d + 3)
    /\ result[1].all_time_daily_streak = 2

\* C6: a date is among the qualifying dates exactly when one single entry of
\* that date has 750 words or more; 749 words, a missing or zero word count,
\* and several smaller entries that together pass 750 do not qualify it
C6_QualifyingNeedsOneEntryOf750 ==
    \A d \in 1..MaxDay :
        (DateString(d) \in ScanEntries(ScanStart, entries).qualifyingDates) = QualifyingDay(d)

\* C6 witness: two entries of 749 words on one day, which does not qualify,
\* and an entry of 750 words on another, which does
C6_Witness ==
    \E d, q \in 1..MaxDay :
        /\ \E i, j \in EntryIndexes :
               /\ i # j
               /\ IsOnDay(entries[i], d) /\ IsOnDay(entries[j], d)
               /\ HasWordCount(entries[i]) /\ entries[i].word_count = 749
               /\ HasWordCount(entries[j]) /\ entries[j].word_count = 749
        /\ DateString(d) \notin ScanEntries(ScanStart, entries).qualifyingDates
        /\ \E i \in EntryIndexes :
               IsOnDay(entries[i], q) /\ HasWordCount(entries[i]) /\ entries[i].word_count = 750
        /\ DateString(q) \in ScanEntries(ScanStart, entries).qualifyingDates

\* the lists that hold the entries of list in another order
RECURSIVE Orders(_)
Orders(list) ==
    IF list = <<>> THEN {<<>>}
    ELSE UNION {{<<list[i]>> \o rest :
                    rest \in Orders([j \in 1..(Len(list) - 1) |->
                                        IF j < i THEN list[j] ELSE list[j + 1]])} :
                i \in 1..Len(list)}

\* C7: what calculateMetadata returned for the list is what it returns for
\* every other order of the same entries, every field of it
C7_OrderOfEntriesIsIrrelevant ==
    result # <<>> =>
        \A other \in Orders(entries) : calculateMetadata(other, zone, now) = result[1]

\* C7 witness: three entries of three different days, the newest not the last
C7_Witness ==
    /\ result # <<>>
    /\ Len(entries) = 3
    /\ StrLess(entries[3].timestamp, entries[1].timestamp)
    /\ StrLess(entries[1].timestamp, entries[2].timestamp)
    /\ result[1].last_entry_date = <<SubSeq(entries[2].timestamp, 1, 10)>>

RECURSIVE SumOfWordCounts(_)
SumOfWordCounts(list) ==
    IF list = <<>> THEN 0
    ELSE (IF HasWordCount(Head(list)) THEN Head(list).word_count ELSE 0)
             + SumOfWordCounts(Tail(list))

\* the days that hold an entry, whatever its word count
DaysWithEntries == {d \in 1..MaxDay : \E i \in EntryIndexes : IsOnDay(entries[i], d)}

\* hundredths is total / count rounded to two decimal places
IsRounded(hundredths, total, count) ==
    /\ 2 * (100 * total - hundredths * count) <= count
    /\ 2 * (hundredths * count - 100 * total) <= count

\* C8: the totals are the number of entries and the sum of their word counts,
\* the averages are the total divided by the number of entries and by the
\* number of days that hold an entry, rounded to two decimal places; for no
\* entry every number is 0 and last_entry_date is null
C8_TotalsAndAverages ==
    result # <<>> =>
        IF entries = <<>>
        THEN /\ result[1].total_entries = 0
             /\ result[1].total_word_count = 0
             /\ result[1].average_word_count_per_session = 0
             /\ result[1].average_word_count_per_day = 0
             /\ result[1].current_daily_streak = 0
             /\ result[1].all_time_daily_streak = 0
             /\ result[1].last_entry_date = <<>>
        ELSE /\ result[1].total_entries = Len(entries)
             /\ result[1].total_word_count = SumOfWordCounts(entries)
             /\ IsRounded(result[1].average_word_count_per_session,
                          SumOfWordCounts(entries), Len(entries))
             /\ IsRounded(result[1].average_word_count_per_day,
                          SumOfWordCounts(entries), Cardinality(DaysWithEntries))

\* C8 witness: three entries on two days whose averages are not whole
\* hundredths before rounding
C8_Witness ==
    /\ result # <<>>
    /\ Len(entries) = 3
    /\ Cardinality(DaysWithEntries) = 2
    /\ (100 * SumOfWordCounts(entries)) % 3 # 0
    /\ result[1].average_word_count_per_session # result[1].average_word_count_per_day

\* ------------------------------------------------------------------ the claims on the session

\* the entries the files of a directory hold
StoredEntries(dir) == {dir[f].entry : f \in DOMAIN dir}

\* the user texts of the exchanges of an entry, in order
UserTexts(e) == [i \in 1..Len(e.exchanges) |-> e.exchanges[i].user]

RECURSIVE SumOfWords(_)
SumOfWords(texts) ==
    IF texts = <<>> THEN 0 ELSE countWords(Head(texts)) + SumOfWords(Tail(texts))

\* C1: whatever the inputs and the outcomes of the chat calls, failed ones
\* included, the word_count of a stored entry is the sum of the word counts of
\* the user texts of its exchanges, and its content is those texts joined in order
C1_WordCountIsSumOverExchanges ==
    \A e \in StoredEntries(entriesDir) :
        /\ e.word_count = SumOfWords(UserTexts(e))
        /\ e.content = JoinSpace(UserTexts(e))

\* the entry of the given id as the running process found it
FoundAtStart(id) == {e \in StoredEntries(atStart.entriesDir) : e.id = id}

\* C2: enrich on an entry that holds an analysis and the empty vector of a
\* failed embedding calls the embedding service again
C2_EmptyEmbeddingIsRetried ==
    (/\ pc = "EnrichExit"
     /\ argv.command = "enrich"
     /\ \E e \in FoundAtStart(argv.entryId) :
            Truthy(e.analysis) /\ e.embedding = << <<>> >>)
        => calls.embeddings >= 1

\* a step in which the awaited chat call of the session ends with no reply
ChatCallFailed == pc = "chat" /\ Len(messages') = Len(messages)

\* C3: a chat call that fails leaves the recorded exchanges as they were, the
\* loop is back at its prompt, nothing is sent again, and at every prompt there
\* has been one chat call per input that was neither blank nor a command
C3_FailedTurnIsNotRecorded ==
    [][/\ ChatCallFailed =>
              /\ sessionExchanges' = sessionExchanges
              /\ pc' = "prompt"
              /\ calls' = calls
              /\ pending' = {}
       /\ pc' \in {"prompt", "chat"} =>
              /\ calls'.chat = turnInputs'
              /\ Len(sessionExchanges') <= turnInputs']_vars

\* C3 witness: a session with one recorded exchange is back at its prompt
\* after the call of its second input failed
C3_Witness ==
    /\ pc = "prompt"
    /\ turnInputs = 2
    /\ Len(sessionExchanges) = 1
    /\ calls.chat = 2
    /\ messages[Len(messages)].role = "user"
    /\ pending = {}

\* a step in which the session handles the save command
SaveCommand == pc = "prompt" /\ IsSave(userInput')

\* C9: save with at least one exchange adds one file, which holds the
\* exchanges of the session, and leaves every other file as it was; save with
\* no exchange writes no entry and no metadata; either way the session is over
\* and handles no further input
C9_SaveWritesOnce ==
    [][/\ SaveCommand =>
              /\ pc' = "SavedExit"
              /\ IF Len(sessionExchanges) > 0
                 THEN /\ \A f \in DOMAIN entriesDir :
                             f \in DOMAIN entriesDir' /\ entriesDir'[f] = entriesDir[f]
                      /\ \E f \in DOMAIN entriesDir' \ DOMAIN entriesDir :
                             /\ DOMAIN entriesDir' = DOMAIN entriesDir \cup {f}
                             /\ entriesDir'[f].entry.exchanges = sessionExchanges
                             /\ entriesDir'[f].entry.id = entryId'
                 ELSE entriesDir' = entriesDir /\ metadataFile' = metadataFile
       /\ pc = "SavedExit" =>
              /\ pc' # "chat"
              /\ pc' = "prompt" => sessionExchanges' = <<>> /\ Len(messages') = 1]_vars

\* C9 witness: a second session was saved next to the entry of the first
C9_Witness ==
    /\ pc = "SavedExit"
    /\ Len(sessionExchanges) > 0
    /\ Cardinality(DOMAIN atStart.entriesDir) = 1
    /\ Cardinality(DOMAIN entriesDir) = 2

\* C10: after exit or quit the stored entries and the persisted metadata are
\* what they were when the session started, whatever the session recorded
C10_ExitPersistsNothing ==
    pc = "DiscardedExit" =>
        /\ entriesDir = atStart.entriesDir
        /\ metadataFile = atStart.metadataFile

\* C10 witness: a session left by exit or quit with two recorded exchanges
C10_Witness ==
    /\ pc = "DiscardedExit"
    /\ IsExitOrQuit(userInput)
    /\ Len(sessionExchanges) = 2
    /\ entriesDir = atStart.entriesDir

\* ------------------------------------------------------------------ the claims on commands and enrichment

\* the text is save, exit or quit in some letter case
IsReservedToken(text) ==
    /\ Len(text) = 4
    /\ \E token \in {<<"s", "a", "v", "e">>, <<"e", "x", "i", "t">>, <<"q", "u", "i", "t">>} :
           \A i \in 1..4 : text[i] = token[i] \/ LowerChar(text[i]) = token[i]

\* a step in which the session reads a line that is blank or a reserved token
CommandOrBlankRead ==
    pc = "prompt" /\ (userInput' = <<>> \/ IsReservedToken(userInput'))

\* C11: a blank line and save, exit and quit in any letter case are no turn:
\* no chat call is sent, and the exchanges, the messages and the word count of
\* the session stay as they were
C11_CommandsAreNoTurn ==
    [][CommandOrBlankRead =>
           /\ calls' = calls
           /\ pending' = pending
           /\ pc' # "chat"
           /\ sessionExchanges' = sessionExchanges
           /\ messages' = messages
           /\ cumulativeWords' = cumulativeWords
           /\ turnInputs' = turnInputs]_vars

\* C11 witness: a session of one exchange was left with "Exit"
C11_Witness ==
    /\ pc = "DiscardedExit"
    /\ userInput = <<"E", "x", "i", "t">>
    /\ Len(sessionExchanges) = 1
    /\ Len(messages) = 3
    /\ calls.chat = 1
    /\ cumulativeWords = SumOfWords(<<sessionExchanges[1].user>>)

\* the entry holds an analysis and an embedding of at least one number
IsFullyEnriched(e) ==
    /\ e.analysis # <<>>
    /\ e.embedding # <<>>
    /\ Len(e.embedding[1]) > 0

\* C12: enrich on an entry that holds an analysis and a non-empty embedding
\* calls no service and leaves the directory as it was
C12_EnrichedEntryIsLeftAlone ==
    (/\ argv.command = "enrich"
     /\ \E e \in FoundAtStart(argv.entryId) : IsFullyEnriched(e))
        => /\ pc = "EnrichExit"
           /\ calls = NoCalls
           /\ pending = {}
           /\ entriesDir = atStart.entriesDir

\* C12 witness: enrich has returned for an entry that was fully enriched
C12_Witness ==
    /\ pc = "EnrichExit"
    /\ argv.command = "enrich"
    /\ \E e \in FoundAtStart(argv.entryId) :
           IsFullyEnriched(e) /\ e \in StoredEntries(entriesDir)

\* the files whose entry lacked an analysis when the command started
LackedAnalysis == {f \in DOMAIN atStart.entriesDir : atStart.entriesDir[f].entry.analysis = <<>>}

\* the files whose entry lacked an embedding when the command started
LackedEmbedding == {f \in DOMAIN atStart.entriesDir : atStart.entriesDir[f].entry.embedding = <<>>}

\* the files whose entry held the empty vector when the command started
HeldEmptyEmbedding ==
    {f \in DOMAIN atStart.entriesDir : atStart.entriesDir[f].entry.embedding = << <<>> >>}

\* the files enrich-all has to enrich
PendingAtStart == LackedAnalysis \cup LackedEmbedding \cup HeldEmptyEmbedding

\* C13: enrich-all sends at most one analysis and one embedding request per
\* pending entry and none for another entry; when it has returned, every entry
\* that lacked an analysis or an embedding holds both, whatever calls failed on
\* the way, the entries that were not pending are as they were, and with no
\* pending entry no request was sent
C13_EnrichAllCoversPending ==
    argv.command = "enrich-all" =>
        /\ calls.chat <= Cardinality(LackedAnalysis)
        /\ calls.embeddings <= Cardinality(PendingAtStart)
        /\ \A f \in DOMAIN atStart.entriesDir \ PendingAtStart :
               f \in DOMAIN entriesDir /\ entriesDir[f] = atStart.entriesDir[f]
        /\ PendingAtStart = {} => calls = NoCalls /\ pc = "EnrichExit"
        /\ pc = "EnrichExit" =>
               /\ calls.chat = Cardinality(LackedAnalysis)
               /\ calls.embeddings >= Cardinality(LackedEmbedding)
               /\ \A f \in LackedAnalysis \cup LackedEmbedding :
                      /\ f \in DOMAIN entriesDir
                      /\ entriesDir[f].entry.analysis # <<>>
                      /\ entriesDir[f].entry.embedding # <<>>

\* C13 witness: enrich-all has returned after two pending entries; the
\* embedding call of the newer one, enriched first, failed, and the older one
\* holds its vector
C13_Witness ==
    /\ pc = "EnrichExit"
    /\ argv.command = "enrich-all"
    /\ \E f, g \in LackedAnalysis :
           /\ StrLess(entriesDir[g].entry.timestamp, entriesDir[f].entry.timestamp)
           /\ entriesDir[f].entry.embedding = << <<>> >>
           /\ entriesDir[g].entry.embedding # <<>>
           /\ Len(entriesDir[g].entry.embedding[1]) > 0

\* C14: enrich with an id that no stored entry has sends no request and
\* leaves the directory as it was, and loadEntryById returns an entry only
\* when its id is the id asked for
C14_UnknownIdIsNotFound ==
    /\ (argv.command = "enrich" /\ FoundAtStart(argv.entryId) = {}) =>
           /\ pc = "EnrichExit"
           /\ calls = NoCalls
           /\ entriesDir = atStart.entriesDir
    /\ (argv.command = "enrich" /\ entry # <<>>) => entry[1].id = argv.entryId

\* ------------------------------------------------------------------ the directory as loadAllEntries finds it

\* a file whose text JSON.parse rejects
UnparsableFile == [parses |-> FALSE, entry |-> [json |-> "{"]]

\* a file whose text is the JSON value null: JSON.parse returns null, which
\* the cast to EntryFile does not check
NullFile == [parses |-> TRUE, entry |-> [json |-> "null"]]

\* the names of the files that may lie in the directory
StoreNames ==
    { <<"a", ".", "j", "s", "o", "n">>,
      <<"b", ".", "j", "s", "o", "n">>,
      <<"e", ".", "j", "s", "o", "n">>,
      <<"n", ".", "t", "x", "t">> }

\* the entry a session of day d left in the k-th file
StoreEntry(d, k) ==
    [id |-> Uuid(k),
     timestamp |-> toISOString(24 * d),
     content |-> <<"h", "i">>,
     word_count |-> 1,
     exchanges |-> <<[user |-> <<"h", "i">>, assistant |-> <<"o", "k">>]>>,
     analysis |-> <<>>,
     embedding |-> <<>>]

\* what a file of the directory may hold
StoreFiles ==
    {EntryFileOf(StoreEntry(d, k)) : d \in 1..MaxClockDay, k \in 1..2}
        \cup {UnparsableFile, NullFile}

\* entries.sort(...) throws a TypeError when the comparator reads .timestamp
\* of null, which it does as soon as the array has two elements
SortThrows(read) ==
    Len(read) >= 2 /\ \E i \in 1..Len(read) : "timestamp" \notin DOMAIN read[i]

\* a call of loadAllEntries: the array it returns, or the error it throws
CallOfLoadAllEntries(dir, listing) ==
    IF SortThrows(ReadEntries(dir, listing))
    THEN [threw |-> TRUE, entries |-> <<>>]
    ELSE [threw |-> FALSE, entries |-> loadAllEntries(dir, listing)]

InitStore ==
    /\ InitHost
    /\ zone = UTC
    /\ now = 24
    /\ entries = <<>>
    /\ result = <<>>

\* a file is written into the directory, by this program or by another
PutFile(name, file) ==
    /\ name \notin DOMAIN entriesDir
    /\ entriesDir' = [f \in DOMAIN entriesDir \cup {name} |->
                          IF f = name THEN file ELSE entriesDir[f]]
    /\ result' = <<>>
    /\ UNCHANGED <<zone, now, metadataFile, pc, argv, atStart, sessionVars, entryId,
                   callVars, enrichVars, entries>>

\* loadAllEntries() is called and readdirSync lists the files in some order
CallLoadAllEntries(listing) ==
    /\ result' = <<CallOfLoadAllEntries(entriesDir, listing)>>
    /\ UNCHANGED <<zone, now, storeVars, pc, argv, atStart, sessionVars, entryId,
                   callVars, enrichVars, entries>>

NextStore ==
    \/ \E name \in StoreNames, file \in StoreFiles : PutFile(name, file)
    \/ \E listing \in Listings(DOMAIN entriesDir) : CallLoadAllEntries(listing)

SpecStore == InitStore /\ [][NextStore]_vars

\* the .json files of the directory whose text parses
ParsingRecords ==
    {f \in DOMAIN entriesDir :
        /\ Len(f) >= 5
        /\ SubSeq(f, Len(f) - 4, Len(f)) = <<".", "j", "s", "o", "n">>
        /\ entriesDir[f].parses}

\* C15: loadAllEntries returns the record of every file that parses, each
\* once, newest first; a file that does not parse is left out and the call
\* never ends in an error
C15_ListingSkipsWhatDoesNotParse ==
    result # <<>> =>
        /\ ~result[1].threw
        /\ Len(result[1].entries) = Cardinality(ParsingRecords)
        /\ \A f \in ParsingRecords :
               \E i \in 1..Len(result[1].entries) : result[1].entries[i] = entriesDir[f].entry
        /\ \A i, j \in 1..Len(result[1].entries) :
               i < j => ~StrLess(result[1].entries[i].timestamp,
                                 result[1].entries[j].timestamp)

\* ------------------------------------------------------------------ the claims on requests, metadata and frames

\* the user text and the reply of every recorded exchange, in order
RECURSIVE TurnsOf(_)
TurnsOf(exchanges) ==
    IF exchanges = <<>> THEN <<>>
    ELSE <<[role |-> "user", content |-> Head(exchanges).user],
           [role |-> "e-cue", content |-> Head(exchanges).assistant]>>
             \o TurnsOf(Tail(exchanges))

\* C16: the chat request of a session holds the system prompt, then the user
\* text and the reply of every recorded exchange in order, then the new input,
\* and nothing else, also after an earlier call failed
C16_RequestIsPromptTurnsInput ==
    pc = "chat" =>
        pending = {[api |-> "chat",
                    messages |-> <<[role |-> "system", content |-> Persona]>>
                                     \o TurnsOf(sessionExchanges)
                                     \o <<[role |-> "user", content |-> userInput]>>]}

\* the stored entries in the order of a listing of their files
EntriesListed(listing) == [i \in 1..Len(listing) |-> entriesDir[listing[i]].entry]

RECURSIVE SumOfStoredWords(_)
SumOfStoredWords(files) ==
    IF files = {} THEN 0
    ELSE LET f == CHOOSE g \in files : TRUE
         IN  entriesDir[f].entry.word_count + SumOfStoredWords(files \ {f})

\* C17: after a save that wrote an entry the persisted metadata is
\* calculateMetadata of all stored entries, the new one included, and at all
\* times its total_entries and total_word_count are the number of the stored
\* entries and the sum of their word counts
C17_MetadataIsRecomputedOnSave ==
    /\ (pc = "SavedExit" /\ Len(sessionExchanges) > 0) =>
           \A listing \in Listings(DOMAIN entriesDir) :
               metadataFile = <<calculateMetadata(EntriesListed(listing), zone, now)>>
    /\ metadataFile # <<>> =>
           /\ metadataFile[1].total_entries = Cardinality(DOMAIN entriesDir)
           /\ metadataFile[1].total_word_count = SumOfStoredWords(DOMAIN entriesDir)

\* C17 witness: the second session was saved and the metadata counts both entries
C17_Witness ==
    /\ pc = "SavedExit"
    /\ Len(sessionExchanges) > 0
    /\ Cardinality(DOMAIN entriesDir) = 2
    /\ metadataFile # <<>>
    /\ metadataFile[1].total_entries = 2
    /\ metadataFile[1].total_word_count >= 2

\* C19: while and after enrich or enrich-all runs, the directory holds the
\* files it held, and the entry of each has the id, timestamp, content,
\* word_count and exchanges it had
C19_EnrichmentKeepsTheEntry ==
    argv.command \in {"enrich", "enrich-all"} =>
        /\ DOMAIN entriesDir = DOMAIN atStart.entriesDir
        /\ \A f \in DOMAIN atStart.entriesDir :
               /\ entriesDir[f].entry.id = atStart.entriesDir[f].entry.id
               /\ entriesDir[f].entry.timestamp = atStart.entriesDir[f].entry.timestamp
               /\ entriesDir[f].entry.content = atStart.entriesDir[f].entry.content
               /\ entriesDir[f].entry.word_count = atStart.entriesDir[f].entry.word_count
               /\ entriesDir[f].entry.exchanges = atStart.entriesDir[f].entry.exchanges

\* C19 witness: enrich-all has returned and both entries gained their analysis
C19_Witness ==
    /\ pc = "EnrichExit"
    /\ argv.command = "enrich-all"
    /\ Cardinality(DOMAIN entriesDir) = 2
    /\ \A f \in DOMAIN entriesDir :
           /\ f \in DOMAIN atStart.entriesDir
           /\ atStart.entriesDir[f].entry.analysis = <<>>
           /\ entriesDir[f].entry.analysis # <<>>

\* C20: at most one request is outstanding, and while one is, no input is
\* read and a request that is sent replaces the one that was outstanding
C20_OneCallAtATime ==
    [][/\ Cardinality(pending') <= 1
       /\ pending # {} =>
              /\ userInput' = userInput
              /\ turnInputs' = turnInputs
              /\ pending' # pending => pending' \cap pending = {}]_vars

\* C20 witness: enrich-all awaits the analysis of its second entry after both
\* calls for the first have returned
C20_Witness ==
    /\ pc = "analysis"
    /\ argv.command = "enrich-all"
    /\ calls = [chat |-> 2, embeddings |-> 1]
    /\ Cardinality(pending) = 1
    /\ entriesToEnrich = <<>>

\* ------------------------------------------------------------------ the claim on last_entry_date

\* the day of an entry of the list
DayOfEntry(e) == CHOOSE d \in 1..MaxDay : IsOnDay(e, d)

\* the hour of the day at which the entry was written
HourOfEntry(e) == 10 * DigitValue(e.timestamp[12]) + DigitValue(e.timestamp[13])

\* no entry of the list was written after entries[i]
IsLatest(i) ==
    \A j \in EntryIndexes :
        24 * DayOfEntry(entries[j]) + HourOfEntry(entries[j])
            <= 24 * DayOfEntry(entries[i]) + HourOfEntry(entries[i])

\* C18: for a list that is not empty last_entry_date is the date of the entry
\* with the greatest timestamp, in whatever order the entries stand and
\* however many of them share that date
C18_LastEntryDateIsNewest ==
    (result # <<>> /\ entries # <<>>) =>
        \E i \in EntryIndexes :
            /\ IsLatest(i)
            /\ result[1].last_entry_date = <<DateString(DayOfEntry(entries[i]))>>

\* C18 witness: the newest entry stands first, another entry of its date
\* second and an entry of an earlier date last
C18_Witness ==
    /\ result # <<>>
    /\ Len(entries) = 3
    /\ IsLatest(1)
    /\ DayOfEntry(entries[2]) = DayOfEntry(entries[1])
    /\ HourOfEntry(entries[2]) < HourOfEntry(entries[1])
    /\ DayOfEntry(entries[3]) < DayOfEntry(entries[1])
    /\ result[1].last_entry_date = <<DateString(DayOfEntry(entries[1]))>>

\* ------------------------------------------------------------------ the claim on the order of the numbers

\* C21: the current streak is at most the all-time streak, which is at most
\* the number of days that hold an entry, which is at most the number of
\* entries; so the average per day is at least the average per session
C21_StreaksAndCountsAreOrdered ==
    result # <<>> =>
        /\ result[1].current_daily_streak <= result[1].all_time_daily_streak
        /\ result[1].all_time_daily_streak <= Cardinality(DaysWithEntries)
        /\ Cardinality(DaysWithEntries) <= result[1].total_entries
        /\ result[1].average_word_count_per_day >= result[1].average_word_count_per_session

====
